---- MODULE Spec2Model ----
(***************************************************************************)
(* A model of app.py, the piano improvisation exercise generator.          *)
(*                                                                         *)
(* Text is modelled as a sequence of one-character strings, so that        *)
(* strip(), split(), lower(), the substring test and the joins are         *)
(* computed rather than assumed.  A pitch is its MIDI number; its          *)
(* name-plus-octave rendering is the pair <<name, octave>>.  A string made *)
(* by joining items on a separator is modelled by the sequence of items.   *)
(***************************************************************************)
EXTENDS Integers, Sequences, FiniteSets, TLC

\* Longest text typed into the "Chord Progression" box.
MaxLen == 3

VARIABLES
  chord_input,   \* the "Chord Progression" textbox
  key_input,     \* the "Song Key" textbox
  call,          \* the function being run: generate_exercises or generate_melody_idea
  pc,            \* position inside the running call
  chords,        \* generate_exercises: chords (the token list)
  output,        \* generate_exercises: output, as the sequence of parts appended so far
  i,             \* index of the next chord in the loop being run
  k,             \* generate_melody_idea: k, what key.Key(song_key) gave
  sc,            \* generate_melody_idea: sc, the scale family of the last chord handled
  melody_notes,  \* generate_melody_idea: melody_notes
  draws,         \* the random.randint results, one <<start, end>> per chord handled
  midi_calls,    \* how many times create_midi_exercise ran in this call
  midi_file,     \* generate_exercises: midi_file
  result,        \* what the call gave back to its caller
  shown          \* what the previous click, on the same progression, left in the outputs

vars == <<chord_input, key_input, call, pc, chords, output, i, k, sc,
          melody_notes, draws, midi_calls, midi_file, result, shown>>

-----------------------------------------------------------------------------
(* Text *)

Whitespace == {" "}

\* The characters the progression box is filled with.
Alphabet == {" ", "C", "G", "m", "7"}

Texts(n) == UNION {[1..m -> Alphabet] : m \in 0..n}

\* The song keys tried: "C Major", "A minor", "C", "a major/minor".
Keys ==
  { <<"C", " ", "M", "a", "j", "o", "r">>,
    <<"A", " ", "m", "i", "n", "o", "r">>,
    <<"C">>,
    <<"a", " ", "m", "a", "j", "o", "r", "/", "m", "i", "n", "o", "r">> }

RECURSIVE lstrip(_)
lstrip(s) ==
  IF s # <<>> /\ Head(s) \in Whitespace THEN lstrip(Tail(s)) ELSE s

RECURSIVE rstrip(_)
rstrip(s) ==
  IF s # <<>> /\ s[Len(s)] \in Whitespace
    THEN rstrip(SubSeq(s, 1, Len(s) - 1))
    ELSE s

\* str.strip()
strip(s) == rstrip(lstrip(s))

\* str.split(): cut at runs of whitespace, no empty token.
RECURSIVE SplitFrom(_, _, _)
SplitFrom(s, cur, acc) ==
  IF s = <<>>
    THEN IF cur = <<>> THEN acc ELSE Append(acc, cur)
    ELSE IF Head(s) \in Whitespace
      THEN SplitFrom(Tail(s), <<>>, IF cur = <<>> THEN acc ELSE Append(acc, cur))
      ELSE SplitFrom(Tail(s), Append(cur, Head(s)), acc)

\* str.split(" "): cut at every single space, empty tokens kept.
RECURSIVE SplitSpaceFrom(_, _, _)
SplitSpaceFrom(s, cur, acc) ==
  IF s = <<>>
    THEN Append(acc, cur)
    ELSE IF Head(s) = " "
      THEN SplitSpaceFrom(Tail(s), <<>>, Append(acc, cur))
      ELSE SplitSpaceFrom(Tail(s), Append(cur, Head(s)), acc)

split_on_space(s) == SplitSpaceFrom(s, <<>>, <<>>)

split(s) == SplitFrom(s, <<>>, <<>>)

\* ' '.join(items)
RECURSIVE join(_)
join(items) ==
  IF items = <<>> THEN <<>>
  ELSE IF Len(items) = 1 THEN items[1]
  ELSE items[1] \o <<" ">> \o join(Tail(items))

UpperToLower ==
  [c \in {"A", "C", "M"} |-> CASE c = "A" -> "a" [] c = "C" -> "c" [] c = "M" -> "m"]

\* str.lower()
lower(s) ==
  [j \in 1..Len(s) |-> IF s[j] \in DOMAIN UpperToLower THEN UpperToLower[s[j]] ELSE s[j]]

\* sub in s
Contains(sub, s) ==
  \E o \in 0..(Len(s) - Len(sub)) : SubSeq(s, o + 1, o + Len(sub)) = sub

major == <<"m", "a", "j", "o", "r">>
minor == <<"m", "i", "n", "o", "r">>

\* seq[a:b] of Python, 0-based and end-exclusive, clipped to the sequence.
PySlice(seq, a, b) ==
  LET hi == IF b > Len(seq) THEN Len(seq) ELSE b
  IN  IF a >= hi THEN <<>> ELSE SubSeq(seq, a + 1, hi)

\* seq[::-1]
Reverse(seq) == [j \in 1..Len(seq) |-> seq[Len(seq) + 1 - j]]

-----------------------------------------------------------------------------
(* The Chord Model and the Scale Model (music21), after spec sections 3, 4 *)
(* and 6: a chord symbol is a root and a quality suffix.                   *)

RootMidi == [r \in {"C", "G"} |-> IF r = "C" THEN 60 ELSE 67]

ChordIntervals(suffix) ==
  CASE suffix = <<>>         -> <<0, 4, 7>>
    [] suffix = <<"m">>      -> <<0, 3, 7>>
    [] suffix = <<"7">>      -> <<0, 4, 7, 10>>
    [] suffix = <<"m", "7">> -> <<0, 3, 7, 10>>
    [] OTHER                 -> <<>>

\* Whether chord.Chord(chord_name) builds a chord; it raises otherwise.
ChordParses(chord_name) ==
  /\ chord_name # <<>>
  /\ chord_name[1] \in DOMAIN RootMidi
  /\ ChordIntervals(Tail(chord_name)) # <<>>

\* ch.pitches, and ch.notes in the same order, root first.
ChordPitches(chord_name) ==
  LET iv == ChordIntervals(Tail(chord_name))
  IN  [j \in 1..Len(iv) |-> RootMidi[chord_name[1]] + iv[j]]

\* chord_obj.root()
ChordRoot(chord_name) == ChordPitches(chord_name)[1]

isMajorTriad(p) == Len(p) = 3 /\ p[2] - p[1] = 4 /\ p[3] - p[1] = 7
isMinorTriad(p) == Len(p) = 3 /\ p[2] - p[1] = 3 /\ p[3] - p[1] = 7
isDominantSeventh(p) ==
  Len(p) = 4 /\ p[2] - p[1] = 4 /\ p[3] - p[1] = 7 /\ p[4] - p[1] = 10

PitchName ==
  [pcl \in 0..11 |->
     CASE pcl = 0 -> "C"   [] pcl = 1 -> "C#"  [] pcl = 2 -> "D"   [] pcl = 3 -> "E-"
       [] pcl = 4 -> "E"   [] pcl = 5 -> "F"   [] pcl = 6 -> "F#"  [] pcl = 7 -> "G"
       [] pcl = 8 -> "A-"  [] pcl = 9 -> "A"   [] pcl = 10 -> "B-" [] pcl = 11 -> "B"]

\* pitch.name
name(p) == PitchName[p % 12]

\* pitch.nameWithOctave
nameWithOctave(p) == <<PitchName[p % 12], (p \div 12) - 1>>

\* note.transpose(semitones)
transpose(p, semitones) == p + semitones

MajorScale == <<0, 2, 4, 5, 7, 9, 11, 12>>
MinorScale == <<0, 2, 3, 5, 7, 8, 10, 12>>

\* sc.derive(root).getPitches(): the eight degrees from the tonic up.
ScalePitches(template, tonic) == [j \in 1..Len(template) |-> tonic + template[j]]

-----------------------------------------------------------------------------
(* The functions of app.py *)

track == 0
channel == 0
volume == 100
duration == 1
tempo == 120

Returned(v) == [raised |-> FALSE, value |-> v]
Raised == [raised |-> TRUE, value |-> <<>>]

\* The rule table with the lists of the minor and the dominant rule exchanged.
ScaleRulesExchanged(p, root) ==
  IF isMajorTriad(p)
    THEN << <<root, " Ionian (Major)">>, <<root, " Lydian">> >>
  ELSE IF isMinorTriad(p)
    THEN << <<root, " Mixolydian">>, <<root, " Altered Dominant">> >>
  ELSE IF isDominantSeventh(p)
    THEN << <<root, " Dorian">>, <<root, " Aeolian (Natural Minor)">> >>
  ELSE << <<root, " Major (default)">> >>

\* The if/elif/else of get_scales_for_chord over a built chord.
ScaleRules(p, root) ==
  IF isMajorTriad(p)
    THEN << <<root, " Ionian (Major)">>, <<root, " Lydian">> >>
  ELSE IF isMinorTriad(p)
    THEN << <<root, " Dorian">>, <<root, " Aeolian (Natural Minor)">> >>
  ELSE IF isDominantSeventh(p)
    THEN << <<root, " Mixolydian">>, <<root, " Altered Dominant">> >>
  ELSE << <<root, " Major (default)">> >>

\* A Scale Advisor that reads the song key: minor keys get Aeolian first.
get_scales_keyed(chord_name, song_key) ==
  IF ~ChordParses(chord_name)
    THEN Raised
    ELSE LET rules == ScaleRules(ChordPitches(chord_name), name(ChordRoot(chord_name)))
         IN  Returned(IF Contains(minor, lower(song_key)) THEN Reverse(rules) ELSE rules)

get_scales_for_chord(chord_name, song_key) ==
  IF ~ChordParses(chord_name)
    THEN Raised
    ELSE Returned(ScaleRules(ChordPitches(chord_name), name(ChordRoot(chord_name))))

\* An arpeggio that turns round on the top note: arpeggio + arpeggio[-2::-1].
ArpeggioSinglePeak(notes) ==
  LET arpeggio == [j \in 1..Len(notes) |-> nameWithOctave(notes[j])]
                    \o <<nameWithOctave(transpose(notes[1], 12))>>
  IN  arpeggio \o Tail(Reverse(arpeggio))

\* The token list that generate_arpeggio_pattern joins on " -> ".
ArpeggioTokens(notes) ==
  LET arpeggio == [j \in 1..Len(notes) |-> nameWithOctave(notes[j])]
                    \o <<nameWithOctave(transpose(notes[1], 12))>>
  IN  arpeggio \o Reverse(arpeggio)

generate_arpeggio_pattern(chord_name) ==
  IF ~ChordParses(chord_name)
    THEN Raised
    ELSE Returned(ArpeggioTokens(ChordPitches(chord_name)))

\* The inner loop of create_midi_exercise: one addNote per pitch.
RECURSIVE AddNotes(_, _, _)
AddNotes(pitches, time, events) ==
  IF pitches = <<>>
    THEN [time |-> time, events |-> events]
    ELSE AddNotes(Tail(pitches), time + duration,
                  Append(events, [track |-> track, channel |-> channel,
                                  pitch |-> Head(pitches), time |-> time,
                                  duration |-> duration, volume |-> volume]))

\* A pause of one duration instead of two.
PauseShort(time) == time + duration

\* The pause after a chord.
Pause(time) == time + duration * 2

\* The outer loop of create_midi_exercise.
RECURSIVE AddChords(_, _, _)
AddChords(rest, time, events) ==
  IF rest = <<>>
    THEN Returned(events)
    ELSE IF ~ChordParses(Head(rest))
      THEN Raised
      ELSE LET played == AddNotes(ChordPitches(Head(rest)), time, events)
           IN  AddChords(Tail(rest), Pause(played.time), played.events)

\* What the MIDI writer is given: the tempo event and the notes, in the order added.
MidiFile(events) == [tempo |-> tempo, notes |-> events]

create_midi_exercise(chord_list) ==
  LET added == AddChords(chord_list, 0, <<>>)
  IN  IF added.raised THEN Raised ELSE Returned(MidiFile(added.value))

\* The template choice without .lower().
ScaleFamilyCaseSensitive(song_key) ==
  IF Contains(major, song_key) THEN "MajorScale" ELSE "MinorScale"

\* The scale template of one chord of generate_melody_idea.
ScaleFamily(song_key) ==
  IF Contains(major, lower(song_key)) THEN "MajorScale" ELSE "MinorScale"

Template(family) == IF family = "MajorScale" THEN MajorScale ELSE MinorScale

\* random.randint(0, 4) and random.randint(5, 7), both ends included.
StartDrawsWide == 0..5
StartDraws == 0..4
EndDraws == 5..7

\* The names one chord adds to melody_notes, for the two draws.
MelodySegment(chord_name, song_key, start, end) ==
  LET pitches == PySlice(ScalePitches(Template(ScaleFamily(song_key)), ChordRoot(chord_name)),
                         start, end)
  IN  [j \in 1..Len(pitches) |-> nameWithOctave(pitches[j])]

\* A string that is either a literal or " ".join(notes).
Literal(text) == [literal |-> text, notes |-> <<>>]
Joined(notes) == [literal |-> "", notes |-> notes]

\* The literal holds an em dash where "--" stands here.
FallbackMelody == Literal("Could not generate melody--check key format (e.g., 'C major').")

\* An except branch that gives back what was collected.
MelodyExceptPartial(collected) == Joined(collected)

\* The except branch of generate_melody_idea.
MelodyExcept(collected) == FallbackMelody

EmptyMessage == "Please enter a chord progression."

PracticeTip ==
  "Practice Tip: Start slow, loop the progression, and gradually add your own variations using the scales above."

Part(kind, about, body) == [kind |-> kind, about |-> about, body |-> body]

\* A header that prints the progression box as typed.
HeaderLineRaw(song_key, chord_list) == Part("header", chord_input, song_key)

\* The first line of the report.
HeaderLine(song_key, chord_list) == Part("header", join(chord_list), song_key)

SelectKind(parts, kind) == SelectSeq(parts, LAMBDA q : q.kind = kind)

-----------------------------------------------------------------------------
(* Values *)

\* midi_file before create_midi_exercise has run.
NoMidi == [tempo |-> 0, notes |-> <<>>]

NoResult == [kind |-> "none", text |-> "", output |-> <<>>, midi |-> NoMidi]

NotShown == [set |-> FALSE, progression |-> <<>>, scales |-> <<>>, arps |-> <<>>, midi |-> NoMidi]

Init ==
  /\ chord_input \in Texts(MaxLen)
  /\ key_input \in Keys
  /\ call \in {"generate_exercises", "generate_melody_idea"}
  /\ pc = "start"
  /\ chords = <<>>
  /\ output = <<>>
  /\ i = 1
  /\ k = "unset"
  /\ sc = "unset"
  /\ melody_notes = <<>>
  /\ draws = <<>>
  /\ midi_calls = 0
  /\ midi_file = NoMidi
  /\ result = NoResult
  /\ shown = NotShown

-----------------------------------------------------------------------------
(* generate_exercises, statement by statement *)

\* chords = chord_progression.strip().split(), and the early return.
SplitInput ==
  /\ pc = "start"
  /\ call = "generate_exercises"
  /\ chords' = split(strip(chord_input))
  /\ IF chords' = <<>>
       THEN /\ result' = [NoResult EXCEPT !.kind = "message", !.text = EmptyMessage]
            /\ pc' = "done"
       ELSE /\ result' = result
            /\ pc' = "header"
  /\ UNCHANGED <<chord_input, key_input, call, output, i, k, sc, melody_notes,
                 draws, midi_calls, midi_file, shown>>

\* The header line and the heading of the scales section.
Header ==
  /\ pc = "header"
  /\ output' = <<HeaderLine(key_input, chords), Part("scales_heading", <<>>, <<>>)>>
  /\ i' = 1
  /\ pc' = "scales"
  /\ UNCHANGED <<chord_input, key_input, call, chords, k, sc, melody_notes, draws,
                 midi_calls, midi_file, result, shown>>

\* A scales loop that answers a chord error with the report assembled so far.
ScaleBulletPartial ==
  /\ pc = "scales"
  /\ i <= Len(chords)
  /\ LET scales == get_scales_for_chord(chords[i], key_input)
     IN  IF scales.raised
           THEN /\ result' = [NoResult EXCEPT !.kind = "pair", !.output = output]
                /\ pc' = "done"
                /\ UNCHANGED <<output, i>>
           ELSE /\ output' = Append(output, Part("scale", chords[i], scales.value))
                /\ i' = i + 1
                /\ UNCHANGED <<result, pc>>
  /\ UNCHANGED <<chord_input, key_input, call, chords, k, sc, melody_notes, draws,
                 midi_calls, midi_file, shown>>

\* One turn of the scales loop; an exception of the chord model leaves the call.
ScaleBullet ==
  /\ pc = "scales"
  /\ i <= Len(chords)
  /\ LET scales == get_scales_for_chord(chords[i], key_input)
     IN  IF scales.raised
           THEN /\ result' = [NoResult EXCEPT !.kind = "raised"]
                /\ pc' = "done"
                /\ UNCHANGED <<output, i>>
           ELSE /\ output' = Append(output, Part("scale", chords[i], scales.value))
                /\ i' = i + 1
                /\ UNCHANGED <<result, pc>>
  /\ UNCHANGED <<chord_input, key_input, call, chords, k, sc, melody_notes, draws,
                 midi_calls, midi_file, shown>>

\* The heading of the arpeggio section, once the scales loop is over.
ArpHeading ==
  /\ pc = "scales"
  /\ i > Len(chords)
  /\ output' = Append(output, Part("arp_heading", <<>>, <<>>))
  /\ i' = 1
  /\ pc' = "arps"
  /\ UNCHANGED <<chord_input, key_input, call, chords, k, sc, melody_notes, draws,
                 midi_calls, midi_file, result, shown>>

\* One turn of the arpeggio loop.
ArpBullet ==
  /\ pc = "arps"
  /\ i <= Len(chords)
  /\ LET arp == generate_arpeggio_pattern(chords[i])
     IN  IF arp.raised
           THEN /\ result' = [NoResult EXCEPT !.kind = "raised"]
                /\ pc' = "done"
                /\ UNCHANGED <<output, i>>
           ELSE /\ output' = Append(output, Part("arp", chords[i], arp.value))
                /\ i' = i + 1
                /\ UNCHANGED <<result, pc>>
  /\ UNCHANGED <<chord_input, key_input, call, chords, k, sc, melody_notes, draws,
                 midi_calls, midi_file, shown>>

\* generate_exercises calls generate_melody_idea(chords, song_key).
MelodyCall ==
  /\ pc = "arps"
  /\ i > Len(chords)
  /\ pc' = "melody_key"
  /\ UNCHANGED <<chord_input, key_input, call, chords, output, i, k, sc,
                 melody_notes, draws, midi_calls, midi_file, result, shown>>

\* generate_melody_idea called by itself on the token list of the input.
MelodyDirect ==
  /\ pc = "start"
  /\ call = "generate_melody_idea"
  /\ chords' = split(strip(chord_input))
  /\ pc' = "melody_key"
  /\ UNCHANGED <<chord_input, key_input, call, output, i, k, sc, melody_notes,
                 draws, midi_calls, midi_file, result, shown>>

\* generate_melody_idea returns `idea`: to its caller when called by itself, and
\* into the melody section and the practice tip inside generate_exercises.
MelodyReturns(idea) ==
  IF call = "generate_melody_idea"
    THEN /\ result' = [NoResult EXCEPT !.kind = "melody", !.output = <<idea>>]
         /\ pc' = "done"
         /\ output' = output
    ELSE /\ output' = output \o <<Part("melody", <<>>, idea), Part("tip", <<>>, PracticeTip)>>
         /\ pc' = "midi"
         /\ result' = result

\* k = key.Key(song_key): the key model builds a key or raises.
MelodyKey ==
  /\ pc = "melody_key"
  /\ \E built \in BOOLEAN :
       IF built
         THEN /\ k' = "Key"
              /\ melody_notes' = <<>>
              /\ i' = 1
              /\ pc' = "melody_loop"
              /\ UNCHANGED <<output, result>>
         ELSE /\ k' = "raised"
              /\ MelodyReturns(MelodyExcept(<<>>))
              /\ UNCHANGED <<melody_notes, i>>
  /\ UNCHANGED <<chord_input, key_input, call, chords, sc, draws, midi_calls,
                 midi_file, shown>>

\* One turn of the melody loop, with its two random draws.
MelodyChord ==
  /\ pc = "melody_loop"
  /\ i <= Len(chords)
  /\ IF ~ChordParses(chords[i])
       THEN /\ sc' = ScaleFamily(key_input)
            /\ MelodyReturns(MelodyExcept(melody_notes))
            /\ UNCHANGED <<melody_notes, draws, i>>
       ELSE \E start \in StartDraws, end \in EndDraws :
              /\ sc' = ScaleFamily(key_input)
              /\ melody_notes' = melody_notes \o MelodySegment(chords[i], key_input, start, end)
              /\ draws' = Append(draws, <<start, end>>)
              /\ i' = i + 1
              /\ UNCHANGED <<output, result, pc>>
  /\ UNCHANGED <<chord_input, key_input, call, chords, k, midi_calls, midi_file, shown>>

\* return " ".join(melody_notes)
MelodyJoin ==
  /\ pc = "melody_loop"
  /\ i > Len(chords)
  /\ MelodyReturns(Joined(melody_notes))
  /\ UNCHANGED <<chord_input, key_input, call, chords, i, k, sc, melody_notes,
                 draws, midi_calls, midi_file, shown>>

\* midi_file = create_midi_exercise(chords)
Midi ==
  /\ pc = "midi"
  /\ midi_calls' = midi_calls + 1
  /\ LET made == create_midi_exercise(chords)
     IN  IF made.raised
           THEN /\ result' = [NoResult EXCEPT !.kind = "raised"]
                /\ pc' = "done"
                /\ midi_file' = midi_file
           ELSE /\ midi_file' = made.value
                /\ pc' = "return"
                /\ result' = result
  /\ UNCHANGED <<chord_input, key_input, call, chords, output, i, k, sc,
                 melody_notes, draws, shown>>

\* return output, midi_file
Return ==
  /\ pc = "return"
  /\ result' = [NoResult EXCEPT !.kind = "pair", !.output = output, !.midi = midi_file]
  /\ pc' = "done"
  /\ UNCHANGED <<chord_input, key_input, call, chords, output, i, k, sc,
                 melody_notes, draws, midi_calls, midi_file, shown>>

\* The button is clicked again with the progression box untouched and another
\* song key; the outputs still show the first report and MIDI file.
ClickAgain ==
  /\ pc = "done"
  /\ call = "generate_exercises"
  /\ result.kind = "pair"
  /\ ~shown.set
  /\ shown' = [set |-> TRUE,
               progression |-> SelectKind(result.output, "header")[1].about,
               scales |-> SelectKind(result.output, "scale"),
               arps |-> SelectKind(result.output, "arp"),
               midi |-> result.midi]
  /\ key_input' \in Keys \ {key_input}
  /\ pc' = "start"
  /\ chords' = <<>>
  /\ output' = <<>>
  /\ i' = 1
  /\ k' = "unset"
  /\ sc' = "unset"
  /\ melody_notes' = <<>>
  /\ draws' = <<>>
  /\ midi_calls' = 0
  /\ midi_file' = NoMidi
  /\ result' = NoResult
  /\ UNCHANGED <<chord_input, call>>

Next ==
  \/ SplitInput
  \/ Header
  \/ ScaleBullet
  \/ ArpHeading
  \/ ArpBullet
  \/ MelodyCall
  \/ MelodyDirect
  \/ MelodyKey
  \/ MelodyChord
  \/ MelodyJoin
  \/ Midi
  \/ Return
  \/ ClickAgain

Spec == Init /\ [][Next]_vars

-----------------------------------------------------------------------------
(* Properties *)

Exercises == call = "generate_exercises"
MelodyAlone == call = "generate_melody_idea"

WhitespaceOnly(s) == \A j \in 1..Len(s) : s[j] \in Whitespace

AllParse(chord_list) == \A j \in 1..Len(chord_list) : ChordParses(chord_list[j])

\* The message and nothing else.
OnlyTheMessage ==
  [kind |-> "message", text |-> EmptyMessage, output |-> <<>>, midi |-> NoMidi]

\* C1: when the progression box is empty or holds only whitespace, then for every
\* song key generate_exercises goes from its split straight to its return, gives
\* back exactly "Please enter a chord progression.", and assembles no report,
\* parses no chord, reads no key and makes no MIDI file.
C1_EmptyProgressionGivesOnlyTheMessage ==
  (Exercises /\ WhitespaceOnly(chord_input)) =>
    /\ pc \in {"start", "done"}
    /\ chords = <<>>
    /\ output = <<>>
    /\ k = "unset"
    /\ melody_notes = <<>>
    /\ midi_calls = 0
    /\ midi_file = NoMidi
    /\ pc = "done" => result = OnlyTheMessage

C1_Witness ==
  /\ Exercises
  /\ chord_input = <<" ", " ">>
  /\ pc = "done"
  /\ result = OnlyTheMessage

\* C2: every bullet of the scales section holds the non-empty list the rule table
\* gives for its chord, first match first: major triad -> Ionian (Major), Lydian;
\* minor triad -> Dorian, Aeolian (Natural Minor); dominant seventh -> Mixolydian,
\* Altered Dominant; anything else -> Major (default); each prefixed by the root.
C2_ScalesFollowTheRuleTable ==
  \A n \in 1..Len(output) :
    output[n].kind = "scale" =>
      LET p == ChordPitches(output[n].about)
          root == PitchName[p[1] % 12]
          got == output[n].body
          maj == isMajorTriad(p)
          min == isMinorTriad(p)
          dom == isDominantSeventh(p)
      IN  /\ got # <<>>
          /\ maj => got = << <<root, " Ionian (Major)">>, <<root, " Lydian">> >>
          /\ (~maj /\ min) =>
               got = << <<root, " Dorian">>, <<root, " Aeolian (Natural Minor)">> >>
          /\ (~maj /\ ~min /\ dom) =>
               got = << <<root, " Mixolydian">>, <<root, " Altered Dominant">> >>
          /\ (~maj /\ ~min /\ ~dom) => got = << <<root, " Major (default)">> >>

C2_Witness ==
  /\ pc = "done"
  /\ result.kind = "pair"
  /\ \E n \in 1..Len(output) :
       /\ output[n].kind = "scale"
       /\ output[n].about = <<"G", "7">>
       /\ output[n].body = << <<"G", " Mixolydian">>, <<"G", " Altered Dominant">> >>

IsPalindrome(seq) == \A j \in 1..Len(seq) : seq[j] = seq[Len(seq) + 1 - j]

Occurrences(seq, x) == Cardinality({j \in 1..Len(seq) : seq[j] = x})

\* The first note of the chord an octave up, as the arpeggio prints it.
TopToken(chord_name) ==
  LET p == ChordPitches(chord_name)
  IN  <<PitchName[(p[1] + 12) % 12], ((p[1] + 12) \div 12) - 1>>

\* C3 as stated: every arpeggio line is a palindrome in which the octave note
\* appears exactly once, at the centre.
C3_TopNoteOnceAtTheCentre ==
  \A n \in 1..Len(output) :
    output[n].kind = "arp" =>
      LET tokens == output[n].body
          top == TopToken(output[n].about)
      IN  /\ IsPalindrome(tokens)
          /\ Occurrences(tokens, top) = 1
          /\ Len(tokens) % 2 = 1
          /\ tokens[(Len(tokens) + 1) \div 2] = top

\* C3, amended: every arpeggio line of a chord of n notes is a palindrome of
\* 2(n+1) tokens: the n notes in reported order, then the first note an octave
\* up at both central places n+1 and n+2 (the peak is printed twice in a row),
\* then the n notes in reverse.
C3_PalindromeWithDoubledPeak ==
  \A n \in 1..Len(output) :
    output[n].kind = "arp" =>
      LET tokens == output[n].body
          p == ChordPitches(output[n].about)
          top == TopToken(output[n].about)
      IN  /\ IsPalindrome(tokens)
          /\ Len(tokens) = 2 * (Len(p) + 1)
          /\ \A j \in 1..Len(p) :
               tokens[j] = <<PitchName[p[j] % 12], (p[j] \div 12) - 1>>
          /\ tokens[Len(p) + 1] = top
          /\ tokens[Len(p) + 2] = top

C3_Witness ==
  /\ pc = "done"
  /\ result.kind = "pair"
  /\ \E n \in 1..Len(output) :
       /\ output[n].kind = "arp"
       /\ output[n].about = <<"C">>
       /\ output[n].body = << <<"C", 4>>, <<"E", 4>>, <<"G", 4>>, <<"C", 5>>,
                              <<"C", 5>>, <<"G", 4>>, <<"E", 4>>, <<"C", 4>> >>

RECURSIVE PitchCount(_)
PitchCount(chord_list) ==
  IF chord_list = <<>> THEN 0
  ELSE Len(ChordPitches(Head(chord_list))) + PitchCount(Tail(chord_list))

\* How many notes come before the first note of chord j.
NotesBefore(j) == PitchCount(SubSeq(chords, 1, j - 1))

\* C4: the MIDI file holds one note per pitch of every chord, in progression
\* order and root-to-top order; onsets never decrease; the notes of one chord
\* are 1 apart; the first note of a chord starts 3 after the last note of the
\* chord before it.
C4_MidiNotesAndOnsets ==
  (Exercises /\ midi_calls = 1 /\ pc \in {"return", "done"}) =>
    LET ev == midi_file.notes
    IN  /\ Len(ev) = PitchCount(chords)
        /\ \A j \in 1..Len(chords) :
             LET p == ChordPitches(chords[j])
                 base == NotesBefore(j)
             IN  /\ \A n \in 1..Len(p) : ev[base + n].pitch = p[n]
                 /\ \A n \in 1..(Len(p) - 1) : ev[base + n + 1].time = ev[base + n].time + 1
                 /\ j > 1 => ev[base + 1].time = ev[base].time + 3
        /\ \A n \in 1..(Len(ev) - 1) : ev[n].time <= ev[n + 1].time
        /\ ev[1].time = 0

C4_Witness ==
  /\ Exercises
  /\ pc = "done"
  /\ result.kind = "pair"
  /\ chords = << <<"C">>, <<"G">> >>
  /\ Len(result.midi.notes) = 6
  /\ result.midi.notes[3].time = 2
  /\ result.midi.notes[4].time = 5

\* What generate_melody_idea gave back, once it has.
MelodyGiven ==
  IF MelodyAlone THEN result.output[1] ELSE SelectKind(output, "melody")[1].body

MelodyHasReturned ==
  \/ MelodyAlone /\ pc = "done"
  \/ Exercises /\ pc \in {"midi", "return"}
  \/ Exercises /\ pc = "done" /\ result.kind = "pair"

\* C5: generate_melody_idea never raises, and whenever the key or a chord of
\* the progression fails it gives back exactly the fallback sentence, with none
\* of the names collected before the failure.
C5_MelodyNeverRaises ==
  /\ MelodyAlone => result.kind \in {"none", "melody"}
  /\ (MelodyAlone /\ pc = "done") => result.kind = "melody"
  /\ (MelodyHasReturned /\ (k = "raised" \/ ~AllParse(chords))) =>
       MelodyGiven = FallbackMelody

C5_Witness ==
  /\ MelodyAlone
  /\ pc = "done"
  /\ k = "Key"
  /\ chords = << <<"C">>, <<"m">> >>
  /\ melody_notes # <<>>
  /\ result.output[1] = FallbackMelody

\* C6: once the token list holds a token the chord model cannot parse, at any
\* place, generate_exercises never gets to the melody or to the MIDI file and
\* ends by raising: no report, partial or whole, and no MIDI file is given back.
C6_UnparseableChordFailsTheCall ==
  (Exercises /\ ~AllParse(chords)) =>
    /\ result.kind \in {"none", "raised"}
    /\ result.output = <<>>
    /\ result.midi = NoMidi
    /\ k = "unset"
    /\ midi_calls = 0
    /\ pc \in {"header", "scales", "done"}
    /\ pc = "done" => result.kind = "raised"

C6_Witness ==
  /\ Exercises
  /\ pc = "done"
  /\ result.kind = "raised"
  /\ chords = << <<"C">>, <<"m">> >>
  /\ Len(output) = 3

\* The report is whole: header, scales, arpeggios, melody, tip.
ReportLength == 2 * Len(chords) + 5

\* C7: a second run on the same progression with another song key, valid or
\* not, gives the same progression text, scales bullets, arpeggio bullets and
\* MIDI file as the first; and a run whose key is rejected still gives the whole
\* report, with the fallback sentence as its melody, and the MIDI file.
C7_KeyChangesOnlyHeaderAndMelody ==
  /\ (Exercises /\ shown.set /\ pc = "done") =>
       /\ result.kind = "pair"
       /\ SelectKind(result.output, "header")[1].about = shown.progression
       /\ SelectKind(result.output, "scale") = shown.scales
       /\ SelectKind(result.output, "arp") = shown.arps
       /\ result.midi = shown.midi
  /\ (Exercises /\ pc = "done" /\ k = "raised") =>
       /\ result.kind = "pair"
       /\ Len(result.output) = ReportLength
       /\ SelectKind(result.output, "melody")[1].body = FallbackMelody
       /\ result.midi = MidiFile(midi_file.notes)
       /\ Len(result.midi.notes) = PitchCount(chords)

C7_Witness ==
  /\ Exercises
  /\ shown.set
  /\ pc = "done"
  /\ k = "raised"
  /\ result.kind = "pair"
  /\ Len(chords) = 2
  /\ shown.scales # <<>>

NonWhitespace(s) == SelectSeq(s, LAMBDA c : c \notin Whitespace)

RECURSIVE Flatten(_)
Flatten(items) == IF items = <<>> THEN <<>> ELSE Head(items) \o Flatten(Tail(items))

\* C8: a returned report is, in this order, the header, the scales heading and
\* one scales bullet per token, the arpeggio heading and one arpeggio bullet per
\* token, the melody, the practice tip; the header holds the song key as typed
\* and the tokens of the input, in their order, joined by single spaces; the
\* bullets follow the tokens, repeated ones included; create_midi_exercise runs
\* once, only after the report is whole, on the same token list.
C8_ReportOrderAndSingleMidi ==
  /\ midi_calls <= 1
  /\ (Exercises /\ midi_calls = 1) => (Len(output) = ReportLength /\ pc \in {"return", "done"})
  /\ (Exercises /\ pc = "done" /\ result.kind = "pair") =>
       LET n == Len(chords)
           out == result.output
       IN  /\ out = output
           /\ Len(out) = 2 * n + 5
           /\ n >= 1
           /\ out[1].kind = "header"
           /\ out[1].body = key_input
           /\ out[1].about = join(chords)
           /\ NonWhitespace(out[1].about) = NonWhitespace(chord_input)
           /\ Flatten(chords) = NonWhitespace(chord_input)
           /\ \A j \in 1..n : chords[j] # <<>> /\ NonWhitespace(chords[j]) = chords[j]
           /\ out[2].kind = "scales_heading"
           /\ \A j \in 1..n : out[2 + j].kind = "scale" /\ out[2 + j].about = chords[j]
           /\ out[n + 3].kind = "arp_heading"
           /\ \A j \in 1..n : out[n + 3 + j].kind = "arp" /\ out[n + 3 + j].about = chords[j]
           /\ out[2 * n + 4].kind = "melody"
           /\ out[2 * n + 5].kind = "tip"
           /\ out[2 * n + 5].body = PracticeTip
           /\ midi_calls = 1
           /\ result.midi = midi_file
           /\ Len(result.midi.notes) = PitchCount(chords)

C8_Witness ==
  /\ Exercises
  /\ pc = "done"
  /\ result.kind = "pair"
  /\ chord_input = <<"C", " ", "C">>
  /\ chords = << <<"C">>, <<"C">> >>
  /\ Len(result.output) = 9

\* C9 as stated: the scale family of a chord is the minor template exactly when
\* the song key holds "minor", whatever the case, and the major one otherwise.
C9_MinorExactlyWhenKeySaysMinor ==
  sc # "unset" => (sc = "MinorScale" <=> Contains(minor, lower(key_input)))

\* C9, amended: the scale family of a chord is the major template exactly when
\* the song key holds "major", whatever the case (a key that holds both words
\* included), and the minor template otherwise (a key that holds neither word
\* included).
C9_MajorExactlyWhenKeySaysMajor ==
  /\ sc \in {"unset", "MajorScale", "MinorScale"}
  /\ pc = "melody_loop" /\ i > 1 => sc # "unset"
  /\ sc # "unset" =>
       (sc = "MajorScale" <=> Contains(major, lower(key_input)))

C9_Witness ==
  /\ sc = "MajorScale"
  /\ key_input = <<"C", " ", "M", "a", "j", "o", "r">>
  /\ melody_notes # <<>>

\* The names the draw d = <<start, end>> takes from the scale of chord_name:
\* the places start .. end - 1, counted from 0.
DrawnRange(chord_name, d) ==
  [j \in 1..(d[2] - d[1]) |->
     LET p == ChordPitches(chord_name)[1] + Template(sc)[d[1] + j]
     IN  <<PitchName[p % 12], (p \div 12) - 1>>]

RECURSIVE DrawnRanges(_)
DrawnRanges(n) ==
  IF n = 0 THEN <<>> ELSE DrawnRanges(n - 1) \o DrawnRange(chords[n], draws[n])

\* C10: with the scale's eight pitches, every draw (start in 0..4, end in 5..7)
\* adds the contiguous range [start, end) of them, between 1 and 7 names and
\* never none; the melody is these ranges in progression order, so a melody
\* over N chords holds between N and 7N names.
C10_SegmentsAreNonEmptyRanges ==
  /\ \A n \in 1..Len(draws) :
       /\ draws[n][1] \in 0..4
       /\ draws[n][2] \in 5..7
       /\ Len(DrawnRange(chords[n], draws[n])) \in 1..7
  /\ melody_notes = DrawnRanges(Len(draws))
  /\ Len(draws) <= Len(melody_notes)
  /\ Len(melody_notes) <= 7 * Len(draws)
  /\ (MelodyAlone /\ pc = "done" /\ k = "Key" /\ AllParse(chords)) =>
       /\ Len(draws) = Len(chords)
       /\ result.output[1] = Joined(melody_notes)

C10_Witness ==
  /\ MelodyAlone
  /\ pc = "done"
  /\ chords = << <<"C">>, <<"G">> >>
  /\ draws = << <<4, 5>>, <<0, 7>> >>
  /\ Len(result.output[1].notes) = 8
  /\ result.output[1].notes[1] = <<"G", 4>>

====
